---- MODULE Spec2Model ----
(***************************************************************************)
(* The CRUD applications of flask-database-starter as state machines:      *)
(*   part-3  school management (Course / Teacher / Student),               *)
(*   part-4  library JSON API  (Author / Book),                            *)
(*   part-6  product inventory (Product).                                  *)
(* Each part is its own process over its own SQLite file.  A behaviour     *)
(* runs one of them: `part` says which.  One action is one HTTP request    *)
(* handled from routing to the response, its commit or rollback included.  *)
(***************************************************************************)
EXTENDS Integers, Sequences, FiniteSets, TLC

VARIABLES
    part,       \* the application that is running: "part3", "part4", "part6"
    authors,    \* part-4 table author:  id -> row
    books,      \* part-4 table book:    id -> row
    clock,      \* part-4: the value datetime.utcnow() gives the next insert
    courses,    \* part-3 table course:  id -> row
    teachers,   \* part-3 table teacher: id -> row
    students,   \* part-3 table student: id -> row
    products,   \* part-6 table product: id -> row
    req,        \* the request handled last
    resp,       \* the response it got
    ops,        \* the number of requests so far that changed a table
    inflight    \* the requests the server's threads are handling at once

db3 == <<courses, teachers, students>>
db4 == <<authors, books, clock>>
db6 == <<products>>
vars == <<part, authors, books, clock, courses, teachers, students, products, req, resp, ops,
          inflight>>

(***************************************************************************)
(* Bounds of the model.                                                    *)
(***************************************************************************)
\* Requests that change a table, per behaviour of Spec and of SortSpec.
MaxOps == 2
\* Rows of the book table in PageSpec.
MaxRows == 12
\* Starts of the process after the first one, per behaviour of StartSpec.
MaxStarts == 1

(***************************************************************************)
(* Text.  A Python str / SQL TEXT value is a string; Text gives the        *)
(* characters of every string the model uses, for the operations that read *)
(* them.  None (Python) and NULL (SQL) in a text position are the value    *)
(* None; in an integer position they are NoneInt.                          *)
(***************************************************************************)
None == "<None>"
NoneInt == -1

Text ==
    ("" :> <<>>)
    @@ ("asc" :> <<"a", "s", "c">>)
    @@ ("desc" :> <<"d", "e", "s", "c">>)
    @@ ("DESC" :> <<"D", "E", "S", "C">>)
    @@ ("Desc" :> <<"D", "e", "s", "c">>)
    @@ ("up" :> <<"u", "p">>)
    @@ ("Eric Matthes" :> <<"E", "r", "i", "c", " ", "M", "a", "t", "t", "h", "e", "s">>)
    @@ ("Miguel Grinberg" :> <<"M", "i", "g", "u", "e", "l", " ", "G", "r", "i", "n", "b", "e", "r", "g">>)
    @@ ("Robert C. Martin" :> <<"R", "o", "b", "e", "r", "t", " ", "C", ".", " ", "M", "a", "r", "t", "i", "n">>)
    @@ ("USA" :> <<"U", "S", "A">>)
    @@ ("Canada" :> <<"C", "a", "n", "a", "d", "a">>)
    @@ ("Python educator" :> <<"P", "y", "t", "h", "o", "n", " ", "e", "d", "u", "c", "a", "t", "o", "r">>)
    @@ ("Flask expert" :> <<"F", "l", "a", "s", "k", " ", "e", "x", "p", "e", "r", "t">>)
    @@ ("Clean Code author" :> <<"C", "l", "e", "a", "n", " ", "C", "o", "d", "e", " ", "a", "u", "t", "h", "o", "r">>)
    @@ ("Python Crash Course" :> <<"P", "y", "t", "h", "o", "n", " ", "C", "r", "a", "s", "h", " ", "C", "o", "u", "r", "s", "e">>)
    @@ ("Flask Web Development" :> <<"F", "l", "a", "s", "k", " ", "W", "e", "b", " ", "D", "e", "v", "e", "l", "o", "p", "m", "e", "n", "t">>)
    @@ ("Clean Code" :> <<"C", "l", "e", "a", "n", " ", "C", "o", "d", "e">>)
    @@ ("978-1593279288" :> <<"9", "7", "8", "-", "1", "5", "9", "3", "2", "7", "9", "2", "8", "8">>)
    @@ ("978-1491991732" :> <<"9", "7", "8", "-", "1", "4", "9", "1", "9", "9", "1", "7", "3", "2">>)
    @@ ("978-0132350884" :> <<"9", "7", "8", "-", "0", "1", "3", "2", "3", "5", "0", "8", "8", "4">>)
    @@ ("Apple iPhone 14" :> <<"A", "p", "p", "l", "e", " ", "i", "P", "h", "o", "n", "e", " ", "1", "4">>)
    @@ ("Samsung Galaxy S23" :> <<"S", "a", "m", "s", "u", "n", "g", " ", "G", "a", "l", "a", "x", "y", " ", "S", "2", "3">>)
    @@ ("Dell XPS 13 Laptop" :> <<"D", "e", "l", "l", " ", "X", "P", "S", " ", "1", "3", " ", "L", "a", "p", "t", "o", "p">>)
    @@ ("Sony WH-1000XM5 Headphones" :> <<"S", "o", "n", "y", " ", "W", "H", "-", "1", "0", "0", "0", "X", "M", "5", " ", "H", "e", "a", "d", "p", "h", "o", "n", "e", "s">>)
    @@ ("Logitech MX Master 3 Mouse" :> <<"L", "o", "g", "i", "t", "e", "c", "h", " ", "M", "X", " ", "M", "a", "s", "t", "e", "r", " ", "3", " ", "M", "o", "u", "s", "e">>)
    @@ ("Ann" :> <<"A", "n", "n">>)
    @@ ("Dune" :> <<"D", "u", "n", "e">>)
    @@ ("978-0441172719" :> <<"9", "7", "8", "-", "0", "4", "4", "1", "1", "7", "2", "7", "1", "9">>)
    @@ ("Pen" :> <<"P", "e", "n">>)
    @@ ("code" :> <<"c", "o", "d", "e">>)
    @@ ("FLASK" :> <<"F", "L", "A", "S", "K">>)
    @@ ("R" :> <<"R">>)
    @@ ("2019" :> <<"2", "0", "1", "9">>)
    @@ ("_" :> <<"_">>)
    @@ ("%" :> <<"%">>)
    @@ ("mart" :> <<"m", "a", "r", "t">>)
    @@ ("2008" :> <<"2", "0", "0", "8">>)
    @@ ("abc" :> <<"a", "b", "c">>)
    @@ ("eric" :> <<"e", "r", "i", "c">>)
    @@ ("usa" :> <<"u", "s", "a">>)
    @@ ("can" :> <<"c", "a", "n">>)
    @@ ("s2" :> <<"s", "2">>)
    @@ ("x" :> <<"x">>)
    @@ ("free" :> <<"f", "r", "e", "e">>)
    @@ ("1.5" :> <<"1", ".", "5">>)
    @@ ("-1" :> <<"-", "1">>)
    @@ ("0" :> <<"0">>)
    @@ ("1" :> <<"1">>)
    @@ ("2" :> <<"2">>)
    @@ ("3" :> <<"3">>)
    @@ ("4" :> <<"4">>)
    @@ ("5" :> <<"5">>)
    @@ ("6" :> <<"6">>)
    @@ ("7" :> <<"7">>)
    @@ ("8" :> <<"8">>)
    @@ ("9" :> <<"9">>)
    @@ ("10" :> <<"1", "0">>)
    @@ ("11" :> <<"1", "1">>)
    @@ ("12" :> <<"1", "2">>)
    @@ ("13" :> <<"1", "3">>)
    @@ ("14" :> <<"1", "4">>)

chars(s) == Text[s]

Ord ==
    (" " :> 32) @@ ("%" :> 37) @@ ("-" :> 45) @@ ("." :> 46) @@ ("0" :> 48) @@ ("1" :> 49)
    @@ ("2" :> 50) @@ ("3" :> 51) @@ ("4" :> 52) @@ ("5" :> 53) @@ ("6" :> 54) @@ ("7" :> 55)
    @@ ("8" :> 56) @@ ("9" :> 57) @@ ("@" :> 64) @@ ("A" :> 65) @@ ("B" :> 66) @@ ("C" :> 67)
    @@ ("D" :> 68) @@ ("E" :> 69) @@ ("F" :> 70) @@ ("G" :> 71) @@ ("H" :> 72) @@ ("I" :> 73)
    @@ ("J" :> 74) @@ ("K" :> 75) @@ ("L" :> 76) @@ ("M" :> 77) @@ ("N" :> 78) @@ ("O" :> 79)
    @@ ("P" :> 80) @@ ("Q" :> 81) @@ ("R" :> 82) @@ ("S" :> 83) @@ ("T" :> 84) @@ ("U" :> 85)
    @@ ("V" :> 86) @@ ("W" :> 87) @@ ("X" :> 88) @@ ("Y" :> 89) @@ ("Z" :> 90) @@ ("_" :> 95)
    @@ ("a" :> 97) @@ ("b" :> 98) @@ ("c" :> 99) @@ ("d" :> 100) @@ ("e" :> 101) @@ ("f" :> 102)
    @@ ("g" :> 103) @@ ("h" :> 104) @@ ("i" :> 105) @@ ("j" :> 106) @@ ("k" :> 107) @@ ("l" :> 108)
    @@ ("m" :> 109) @@ ("n" :> 110) @@ ("o" :> 111) @@ ("p" :> 112) @@ ("q" :> 113) @@ ("r" :> 114)
    @@ ("s" :> 115) @@ ("t" :> 116) @@ ("u" :> 117) @@ ("v" :> 118) @@ ("w" :> 119) @@ ("x" :> 120)
    @@ ("y" :> 121) @@ ("z" :> 122)
UpperCase == <<"A", "B", "C", "D", "E", "F", "G", "H", "I", "J", "K", "L", "M", "N", "O", "P", "Q", "R", "S", "T", "U", "V", "W", "X", "Y", "Z">>
LowerCase == <<"a", "b", "c", "d", "e", "f", "g", "h", "i", "j", "k", "l", "m", "n", "o", "p", "q", "r", "s", "t", "u", "v", "w", "x", "y", "z">>

\* str.lower(), one character.
LowerChar(c) ==
    IF \E i \in 1..Len(UpperCase) : UpperCase[i] = c
    THEN LowerCase[CHOOSE i \in 1..Len(UpperCase) : UpperCase[i] = c]
    ELSE c

\* str.lower() / SQL lower(), on the characters.
lower(cs) == [i \in 1..Len(cs) |-> LowerChar(cs[i])]

\* int(s) of Python: an optional sign and decimal digits; anything else
\* raises ValueError, which IsInt(s) = FALSE stands for.
Digits == <<"0", "1", "2", "3", "4", "5", "6", "7", "8", "9">>
IsDigits(cs) == Len(cs) > 0 /\ \A i \in 1..Len(cs) : \E d \in 1..10 : Digits[d] = cs[i]
IsInt(s) ==
    /\ s # None
    /\ Len(chars(s)) > 0
    /\ IF chars(s)[1] \in {"-", "+"} THEN IsDigits(Tail(chars(s))) ELSE IsDigits(chars(s))
RECURSIVE DigitsValue(_)
DigitsValue(cs) ==
    IF Len(cs) = 0 THEN 0
    ELSE 10 * DigitsValue(SubSeq(cs, 1, Len(cs) - 1))
         + (CHOOSE d \in 1..10 : Digits[d] = cs[Len(cs)]) - 1
int(s) ==
    IF chars(s)[1] = "-" THEN 0 - DigitsValue(Tail(chars(s)))
    ELSE IF chars(s)[1] = "+" THEN DigitsValue(Tail(chars(s)))
    ELSE DigitsValue(chars(s))

\* memcmp order of the characters of two strings (SQLite's BINARY
\* collation).
RECURSIVE StrLess(_, _)
StrLess(a, b) ==
    IF Len(b) = 0 THEN FALSE
    ELSE IF Len(a) = 0 THEN TRUE
    ELSE IF Ord[a[1]] # Ord[b[1]] THEN Ord[a[1]] < Ord[b[1]]
    ELSE StrLess(Tail(a), Tail(b))

\* ORDER BY on a TEXT column: NULL sorts before every value.
TextLess(a, b) ==
    IF b = None THEN FALSE
    ELSE IF a = None THEN TRUE
    ELSE StrLess(chars(a), chars(b))

\* ORDER BY on an INTEGER or DATETIME column: NULL sorts before every value.
IntLess(a, b) ==
    IF b = NoneInt THEN FALSE
    ELSE IF a = NoneInt THEN TRUE
    ELSE a < b

(***************************************************************************)
(* Python dicts (a JSON object, request.args, request.form) are functions  *)
(* from the keys present to their values.                                  *)
(***************************************************************************)
EmptyDict == <<>>

\* Python truthiness of a text value and of an integer value.
TruthyText(v) == v # None /\ v # ""
TruthyInt(v) == v # NoneInt /\ v # 0

\* dict.get(key, default)
get(d, key, default) == IF key \in DOMAIN d THEN d[key] ELSE default

(***************************************************************************)
(* Tables.  A table is a function from the primary keys stored to rows.    *)
(***************************************************************************)
EmptyTable == <<>>

Max(S) == CHOOSE m \in S : \A x \in S : x <= m

\* INTEGER PRIMARY KEY without AUTOINCREMENT: one more than the largest
\* rowid in the table, 1 in an empty table.
NextId(table) == IF DOMAIN table = {} THEN 1 ELSE Max(DOMAIN table) + 1

\* session.add(row) as the INSERT the flush emits.
Insert(table, id, row) ==
    [i \in DOMAIN table \cup {id} |-> IF i = id THEN row ELSE table[i]]

\* session.delete(row) as the DELETE the flush emits.
Delete(table, ids) == [i \in DOMAIN table \ ids |-> table[i]]

\* Model.query.get(id): the row, or None when there is none.
Exists(table, id) == id \in DOMAIN table

(***************************************************************************)
(* Requests and responses.                                                 *)
(*   req.data  the JSON body as request.get_json() returns it: nothing     *)
(*             (None), a JSON object (a dict), or a non-empty JSON array    *)
(*   req.args  the query string (request.args) or the form (request.form)  *)
(*   resp      the status code and the JSON body; an exception that no     *)
(*             handler catches is the server's 500 response                *)
(***************************************************************************)
NoBody == [type |-> "none", d |-> EmptyDict]
ListBody == [type |-> "list", d |-> EmptyDict]
Json(d) == [type |-> "dict", d |-> d]

Request(op, id, data, args) == [op |-> op, id |-> id, data |-> data, args |-> args]
NoRequest == Request("none", 0, NoBody, EmptyDict)
NoResponse == [status |-> 0, body |-> EmptyDict]

\* app.run() serves each request in a thread of its own.  A thread holds
\* its request, the place its handler has reached, the id of the row its
\* first commit stored, the commits it has made, and its response.
Threads == {1, 2}
Idle == [pc |-> "idle", request |-> NoRequest, new |-> 0, commits |-> 0,
         response |-> NoResponse]

\* `not data`
Falsy(data) == data.type = "none" \/ (data.type = "dict" /\ DOMAIN data.d = {})

\* A request.args.get(key, type=int) without its default: 0 for a missing
\* or rejected value.
ArgIntZero(args, key, default) ==
    IF key \in DOMAIN args /\ IsInt(args[key]) THEN int(args[key]) ELSE 0

\* request.args.get(key, default, type=int): a value int() rejects gives
\* the default.
ArgInt(args, key, default) ==
    IF key \in DOMAIN args /\ IsInt(args[key]) THEN int(args[key]) ELSE default

\* return jsonify({'success': False, 'error': error}), status
\* The session is dropped at the end of the request: what it held and did
\* not commit is rolled back.
ErrorResponse(status, error) ==
    [status |-> status, body |-> [success |-> FALSE, error |-> error]]

\* An exception leaves the handler: the server answers 500.
Unhandled(exception) == [status |-> 500, body |-> [exception |-> exception]]

(***************************************************************************)
(* part-4: the library API.                                                *)
(***************************************************************************)
EricMatthes == "Eric Matthes"
MiguelGrinberg == "Miguel Grinberg"
RobertCMartin == "Robert C. Martin"
USA == "USA"
Canada == "Canada"
PythonEducator == "Python educator"
FlaskExpert == "Flask expert"
CleanCodeAuthor == "Clean Code author"
PythonCrashCourse == "Python Crash Course"
FlaskWebDevelopment == "Flask Web Development"
CleanCode == "Clean Code"
Isbn1 == "978-1593279288"
Isbn2 == "978-1491991732"
Isbn3 == "978-0132350884"

\* class Author / class Book: a row, given the column values.
Author(name, bio, city, created_at) ==
    [name |-> name, bio |-> bio, city |-> city, created_at |-> created_at]
Book(title, author_id, year, isbn, created_at) ==
    [title |-> title, author_id |-> author_id, year |-> year, isbn |-> isbn,
     created_at |-> created_at]

\* The names hasattr() finds on the mapped classes: the columns, and the
\* relationship, the backref and the method, which are no columns.
AuthorColumns == {"id", "name", "bio", "city", "created_at"}
BookColumns == {"id", "title", "author_id", "year", "isbn", "created_at"}
AuthorAttrs == AuthorColumns \cup {"books", "to_dict"}
BookAttrs == BookColumns \cup {"author_obj", "to_dict"}
TextColumns == {"name", "bio", "city", "title", "isbn"}

\* The constraints the schema states, which SQLite checks on flush:
\* NOT NULL and UNIQUE (a UNIQUE column may hold NULL in many rows).
\* The foreign key is declared, and SQLite does not enforce it unless
\* asked to.
\* An author table whose schema states no constraint.
Unconstrained(A) == TRUE

AuthorConstraints(A) ==
    /\ \A i \in DOMAIN A : A[i].name # None
    /\ \A i, j \in DOMAIN A : i # j => A[i].name # A[j].name
BookConstraints(B) ==
    /\ \A i \in DOMAIN B : B[i].title # None /\ B[i].author_id # NoneInt
    /\ \A i, j \in DOMAIN B : (i # j /\ B[i].isbn # None) => B[i].isbn # B[j].isbn

\* len(self.books): the relationship is loaded from the book table.
\* A count that takes every stored book for the author's.
BooksOfAny(B, author_id) == DOMAIN B

BooksOf(B, author_id) == {b \in DOMAIN B : B[b].author_id = author_id}

\* Author.to_dict / Book.to_dict, read from tables A and B.
AuthorDict(A, B, id) ==
    [id |-> id, name |-> A[id].name, bio |-> A[id].bio, city |-> A[id].city,
     created_at |-> A[id].created_at, book_count |-> Cardinality(BooksOf(B, id))]
BookDict(A, B, id) ==
    [id |-> id, title |-> B[id].title, author_id |-> B[id].author_id,
     author_name |-> IF B[id].author_id \in DOMAIN A THEN A[B[id].author_id].name ELSE None,
     year |-> B[id].year, isbn |-> B[id].isbn, created_at |-> B[id].created_at]

\* The request ends without a commit, by a return or by an exception.
Abort4(response) == resp' = response /\ UNCHANGED db4

\* A handler's return without the db.session.commit() before it: the
\* response is built from tables A and B, and nothing is written.
RespondUncommitted(A, B, now, response) ==
    IF AuthorConstraints(A) /\ BookConstraints(B)
    THEN resp' = response /\ UNCHANGED db4
    ELSE resp' = Unhandled("IntegrityError") /\ UNCHANGED db4

\* db.session.commit() of tables A and B, and then the handler's return:
\* `response` is read from the committed tables.  A constraint the flush
\* violates raises IntegrityError, and nothing is written.
Commit4(A, B, now, response) ==
    IF AuthorConstraints(A) /\ BookConstraints(B)
    THEN authors' = A /\ books' = B /\ clock' = now /\ resp' = response
    ELSE Abort4(Unhandled("IntegrityError"))

\* A lookup by name that finds no author, whatever is stored.
NoAuthorNamed(name) == {}

\* Author.query.filter_by(name=name).first()
AuthorNamed(name) == {i \in DOMAIN authors : authors[i].name = name}
\* Book.query.filter_by(isbn=isbn).first()
BookWithIsbn(isbn) == {i \in DOMAIN books : books[i].isbn = isbn}

\* GET /api/authors/<id>
get_author(id) ==
    /\ part = "part4"
    /\ req' = Request("get_author", id, NoBody, EmptyDict)
    /\ IF ~Exists(authors, id)
       THEN Abort4(ErrorResponse(404, "Author not found"))
       ELSE Abort4([status |-> 200,
                    body |-> [success |-> TRUE, author |-> AuthorDict(authors, books, id)]])
    /\ UNCHANGED <<part, db3, db6>>

\* POST /api/authors
create_author(data) ==
    /\ part = "part4"
    /\ req' = Request("create_author", 0, data, EmptyDict)
    /\ IF Falsy(data)
       THEN Abort4(ErrorResponse(400, "Name is required"))
       ELSE IF data.type = "list"
       THEN Abort4(Unhandled("AttributeError"))
       ELSE IF ~TruthyText(get(data.d, "name", None))
       THEN Abort4(ErrorResponse(400, "Name is required"))
       ELSE IF AuthorNamed(data.d["name"]) # {}
       THEN Abort4(ErrorResponse(400, "Author already exists"))
       ELSE LET id == NextId(authors)
                new_author == Author(data.d["name"], get(data.d, "bio", None),
                                     get(data.d, "city", None), clock)
                A == Insert(authors, id, new_author)
            IN  Commit4(A, books, clock + 1,
                        [status |-> 201,
                         body |-> [success |-> TRUE,
                                   message |-> "Author created successfully",
                                   author |-> AuthorDict(A, books, id)]])
    /\ UNCHANGED <<part, db3, db6>>

\* A PUT /api/authors/<id> that takes the body for the whole record: a bio
\* or a city the body does not carry becomes null.
update_author_reset(id, data) ==
    /\ part = "part4"
    /\ req' = Request("update_author", id, data, EmptyDict)
    /\ IF ~Exists(authors, id)
       THEN Abort4(ErrorResponse(404, "Author not found"))
       ELSE IF Falsy(data)
       THEN Abort4(ErrorResponse(400, "No data provided"))
       ELSE LET d == data.d
                author == [name |-> get(d, "name", authors[id].name),
                           bio |-> get(d, "bio", None),
                           city |-> get(d, "city", None),
                           created_at |-> authors[id].created_at]
                A == [authors EXCEPT ![id] = author]
            IN  Commit4(A, books, clock,
                        [status |-> 200,
                         body |-> [success |-> TRUE,
                                   message |-> "Author updated successfully",
                                   author |-> AuthorDict(A, books, id)]])
    /\ UNCHANGED <<part, db3, db6>>

\* PUT /api/authors/<id>
update_author(id, data) ==
    /\ part = "part4"
    /\ req' = Request("update_author", id, data, EmptyDict)
    /\ IF ~Exists(authors, id)
       THEN Abort4(ErrorResponse(404, "Author not found"))
       ELSE IF Falsy(data)
       THEN Abort4(ErrorResponse(400, "No data provided"))
       ELSE LET d == data.d    \* `key in data` finds no key in a JSON array
                author == [name |-> get(d, "name", authors[id].name),
                           bio |-> get(d, "bio", authors[id].bio),
                           city |-> get(d, "city", authors[id].city),
                           created_at |-> authors[id].created_at]
                A == [authors EXCEPT ![id] = author]
            IN  Commit4(A, books, clock,
                        [status |-> 200,
                         body |-> [success |-> TRUE,
                                   message |-> "Author updated successfully",
                                   author |-> AuthorDict(A, books, id)]])
    /\ UNCHANGED <<part, db3, db6>>

\* A relationship without the cascade: the books of a deleted author stay.
NoCascade(B, author_id) == B

\* cascade='all, delete-orphan': deleting an author deletes author.books.
CascadeDelete(B, author_id) == Delete(B, BooksOf(B, author_id))

\* DELETE /api/authors/<id>
delete_author(id) ==
    /\ part = "part4"
    /\ req' = Request("delete_author", id, NoBody, EmptyDict)
    /\ IF ~Exists(authors, id)
       THEN Abort4(ErrorResponse(404, "Author not found"))
       ELSE Commit4(Delete(authors, {id}), CascadeDelete(books, id), clock,
                    [status |-> 200,
                     body |-> [success |-> TRUE,
                               message |-> "Author deleted successfully"]])
    /\ UNCHANGED <<part, db3, db6>>

\* GET /api/books/<id>
get_book(id) ==
    /\ part = "part4"
    /\ req' = Request("get_book", id, NoBody, EmptyDict)
    /\ IF ~Exists(books, id)
       THEN Abort4(ErrorResponse(404, "Book not found"))
       ELSE Abort4([status |-> 200,
                    body |-> [success |-> TRUE, book |-> BookDict(authors, books, id)]])
    /\ UNCHANGED <<part, db3, db6>>

\* POST /api/books
create_book(data) ==
    /\ part = "part4"
    /\ req' = Request("create_book", 0, data, EmptyDict)
    /\ IF Falsy(data)
       THEN Abort4(ErrorResponse(400, "Title and author_id are required"))
       ELSE IF data.type = "list"
       THEN Abort4(Unhandled("AttributeError"))
       ELSE IF ~TruthyText(get(data.d, "title", None))
               \/ ~TruthyInt(get(data.d, "author_id", NoneInt))
       THEN Abort4(ErrorResponse(400, "Title and author_id are required"))
       ELSE IF ~Exists(authors, data.d["author_id"])
       THEN Abort4(ErrorResponse(400, "Author not found"))
       ELSE IF TruthyText(get(data.d, "isbn", None)) /\ BookWithIsbn(data.d["isbn"]) # {}
       THEN Abort4(ErrorResponse(400, "ISBN already exists"))
       ELSE LET id == NextId(books)
                new_book == Book(data.d["title"], data.d["author_id"],
                                 get(data.d, "year", NoneInt), get(data.d, "isbn", None),
                                 clock)
                B == Insert(books, id, new_book)
            IN  Commit4(authors, B, clock + 1,
                        [status |-> 201,
                         body |-> [success |-> TRUE,
                                   message |-> "Book created successfully",
                                   book |-> BookDict(authors, B, id)]])
    /\ UNCHANGED <<part, db3, db6>>

\* A PUT /api/books/<id> that stores the author_id of the body without
\* looking the author up.
update_book_unchecked(id, data) ==
    /\ part = "part4"
    /\ req' = Request("update_book", id, data, EmptyDict)
    /\ IF ~Exists(books, id)
       THEN Abort4(ErrorResponse(404, "Book not found"))
       ELSE IF Falsy(data)
       THEN Abort4(ErrorResponse(400, "No data provided"))
       ELSE LET d == data.d
                book == [title |-> get(d, "title", books[id].title),
                         author_id |-> get(d, "author_id", books[id].author_id),
                         year |-> get(d, "year", books[id].year),
                         isbn |-> get(d, "isbn", books[id].isbn),
                         created_at |-> books[id].created_at]
                B == [books EXCEPT ![id] = book]
            IN  Commit4(authors, B, clock,
                        [status |-> 200,
                         body |-> [success |-> TRUE,
                                   message |-> "Book updated successfully",
                                   book |-> BookDict(authors, B, id)]])
    /\ UNCHANGED <<part, db3, db6>>

\* PUT /api/books/<id>
\* Author.query.get() is a SELECT, and the session flushes before a SELECT:
\* a title set to null just before it fails there (NOT NULL), before the
\* author is looked at.
update_book(id, data) ==
    /\ part = "part4"
    /\ req' = Request("update_book", id, data, EmptyDict)
    /\ IF ~Exists(books, id)
       THEN Abort4(ErrorResponse(404, "Book not found"))
       ELSE IF Falsy(data)
       THEN Abort4(ErrorResponse(400, "No data provided"))
       ELSE LET d == data.d    \* `key in data` finds no key in a JSON array
                book == [title |-> get(d, "title", books[id].title),
                         author_id |-> get(d, "author_id", books[id].author_id),
                         year |-> get(d, "year", books[id].year),
                         isbn |-> get(d, "isbn", books[id].isbn),
                         created_at |-> books[id].created_at]
                B == [books EXCEPT ![id] = book]
            IN  IF "author_id" \in DOMAIN d /\ get(d, "title", books[id].title) = None
                THEN Abort4(Unhandled("IntegrityError"))
                ELSE IF "author_id" \in DOMAIN d /\ ~Exists(authors, d["author_id"])
                THEN Abort4(ErrorResponse(400, "Author not found"))
                ELSE Commit4(authors, B, clock,
                             [status |-> 200,
                              body |-> [success |-> TRUE,
                                        message |-> "Book updated successfully",
                                        book |-> BookDict(authors, B, id)]])
    /\ UNCHANGED <<part, db3, db6>>

\* A DELETE /api/books/<id> without the lookup of the book: it deletes what
\* is stored under id, if anything, and answers 200.
delete_book_unchecked(id) ==
    /\ part = "part4"
    /\ req' = Request("delete_book", id, NoBody, EmptyDict)
    /\ Commit4(authors, Delete(books, {id}), clock,
               [status |-> 200,
                body |-> [success |-> TRUE,
                          message |-> "Book deleted successfully"]])
    /\ UNCHANGED <<part, db3, db6>>

\* DELETE /api/books/<id>
delete_book(id) ==
    /\ part = "part4"
    /\ req' = Request("delete_book", id, NoBody, EmptyDict)
    /\ IF ~Exists(books, id)
       THEN Abort4(ErrorResponse(404, "Book not found"))
       ELSE Commit4(authors, Delete(books, {id}), clock,
                    [status |-> 200,
                     body |-> [success |-> TRUE,
                               message |-> "Book deleted successfully"]])
    /\ UNCHANGED <<part, db3, db6>>

(***************************************************************************)
(* part-4: sorting and pagination of the list endpoints.                   *)
(***************************************************************************)
\* The value of column col in the row with primary key id.
Column(table, id, col) == IF col = "id" THEN id ELSE table[id][col]

\* a sorts strictly before b in ascending order of column col.
Less(col, a, b) == IF col \in TextColumns THEN TextLess(a, b) ELSE IntLess(a, b)

RECURSIVE Orderings(_)
Orderings(S) ==
    IF S = {} THEN {<<>>}
    ELSE UNION {{<<x>> \o p : p \in Orderings(S \ {x})} : x \in S}

\* The results ORDER BY col ASC (desc = FALSE) or DESC (desc = TRUE) can
\* give for the rows ids: rows with equal keys come in any order.
RECURSIVE Ordered(_, _, _, _)
Ordered(table, ids, col, desc) ==
    IF ids = {} THEN {<<>>}
    ELSE LET key(i) == Column(table, i, col)
             first == {i \in ids : \A j \in ids :
                          IF desc THEN ~Less(col, key(i), key(j))
                                  ELSE ~Less(col, key(j), key(i))}
         IN  UNION {{p \o rest : rest \in Ordered(table, ids \ first, col, desc)} :
                    p \in Orderings(first)}

\* A SELECT without ORDER BY: SQLite scans the table in rowid order.
Scan(table) == Ordered(table, DOMAIN table, "id", FALSE)

\* order == 'desc', without the lower().
IsDescExact(order) == order = "desc"

\* order.lower() == 'desc'
IsDesc(order) == lower(chars(order)) = chars("desc")

\* hasattr(Model, sort_column)
hasattr(attrs, sort_column) == sort_column \in attrs

\* query.order_by(col.desc()) / query.order_by(col.asc())
order_by(table, sort_column, order) == Ordered(table, DOMAIN table, sort_column, IsDesc(order))

\* A pagination that counts the full pages only.
paginate_floor(rows, page, per_page) ==
    LET p == IF page < 1 THEN 1 ELSE page
        s == IF per_page < 1 THEN 20 ELSE per_page
        total == Len(rows)
        last == IF p * s < total THEN p * s ELSE total
    IN  [items |-> SubSeq(rows, (p - 1) * s + 1, last),
         total |-> total,
         pages |-> total \div s,
         page |-> p]

\* query.paginate(page=page, per_page=per_page, error_out=False) over the
\* result rows: a page below 1 is page 1, a page size below 1 is 20, and
\* a page past the end is empty.
paginate(rows, page, per_page) ==
    LET p == IF page < 1 THEN 1 ELSE page
        s == IF per_page < 1 THEN 20 ELSE per_page
        total == Len(rows)
        last == IF p * s < total THEN p * s ELSE total
    IN  [items |-> SubSeq(rows, (p - 1) * s + 1, last),
         total |-> total,
         pages |-> (total + s - 1) \div s,
         page |-> p]

\* GET /api/authors
get_authors(args) ==
    /\ part = "part4"
    /\ req' = Request("get_authors", 0, NoBody, args)
    /\ LET sort_column == get(args, "sort", "id")
           order == get(args, "order", "asc")
           page == ArgInt(args, "page", 1)
           per_page == ArgInt(args, "per_page", 10)
       IN  IF hasattr(AuthorAttrs, sort_column) /\ sort_column \notin AuthorColumns
           THEN \* .asc() / .desc() of a relationship or of a function
                Abort4(Unhandled(IF sort_column = "books" THEN "NotImplementedError"
                                                          ELSE "AttributeError"))
           ELSE \E rows \in (IF hasattr(AuthorAttrs, sort_column)
                             THEN order_by(authors, sort_column, order)
                             ELSE Scan(authors)) :
                    LET pagination == paginate(rows, page, per_page)
                        items == pagination.items
                    IN  Abort4([status |-> 200,
                                body |-> [success |-> TRUE,
                                          count |-> Len(items),
                                          total_authors |-> pagination.total,
                                          total_pages |-> pagination.pages,
                                          current_page |-> pagination.page,
                                          sort |-> sort_column,
                                          order |-> order,
                                          authors |-> [i \in 1..Len(items) |->
                                              AuthorDict(authors, books, items[i])]]])
    /\ UNCHANGED <<part, db3, db6>>

\* GET /api/books
get_books(args) ==
    /\ part = "part4"
    /\ req' = Request("get_books", 0, NoBody, args)
    /\ LET sort_column == get(args, "sort", "id")
           order == get(args, "order", "asc")
           page == ArgInt(args, "page", 1)
           per_page == ArgInt(args, "per_page", 10)
       IN  IF hasattr(BookAttrs, sort_column) /\ sort_column \notin BookColumns
           THEN \* .asc() / .desc() of a relationship or of a function
                Abort4(Unhandled(IF sort_column = "author_obj" THEN "NotImplementedError"
                                                               ELSE "AttributeError"))
           ELSE \E rows \in (IF hasattr(BookAttrs, sort_column)
                             THEN order_by(books, sort_column, order)
                             ELSE Scan(books)) :
                    LET pagination == paginate(rows, page, per_page)
                        items == pagination.items
                    IN  Abort4([status |-> 200,
                                body |-> [success |-> TRUE,
                                          count |-> Len(items),
                                          total_books |-> pagination.total,
                                          total_pages |-> pagination.pages,
                                          current_page |-> pagination.page,
                                          sort |-> sort_column,
                                          order |-> order,
                                          books |-> [i \in 1..Len(items) |->
                                              BookDict(authors, books, items[i])]]])
    /\ UNCHANGED <<part, db3, db6>>

(***************************************************************************)
(* part-4: search.                                                         *)
(***************************************************************************)
\* SQL LIKE: '%' matches any run of characters, '_' any one character.
RECURSIVE Like(_, _)
Like(s, pattern) ==
    IF Len(pattern) = 0 THEN Len(s) = 0
    ELSE IF pattern[1] = "%"
    THEN Like(s, Tail(pattern)) \/ (Len(s) > 0 /\ Like(Tail(s), pattern))
    ELSE IF Len(s) = 0 THEN FALSE
    ELSE IF pattern[1] = "_" THEN Like(Tail(s), Tail(pattern))
    ELSE s[1] = pattern[1] /\ Like(Tail(s), Tail(pattern))

\* column.ilike(pattern): lower(column) LIKE lower(pattern); NULL matches
\* nothing.
ilike(value, pattern) == value # None /\ Like(lower(chars(value)), lower(pattern))

\* f'%{text}%'
Contains(text) == <<"%">> \o chars(text) \o <<"%">>

\* The ids of a set in ascending order: the order query.all() returns the
\* rows of a scan in.
RECURSIVE Ascending(_)
Ascending(ids) ==
    IF ids = {} THEN <<>>
    ELSE LET least == CHOOSE i \in ids : \A j \in ids : i <= j
         IN  <<least>> \o Ascending(ids \ {least})

\* Filters that widen the result instead of narrowing it: the books that
\* pass one of the supplied filters, every book when none is supplied.
BooksMatchingAny(args) ==
    LET title == get(args, "q", None)
        author_name == get(args, "author", None)
        year == get(args, "year", None)
    IN  {b \in DOMAIN books :
            \/ ~TruthyText(title) /\ ~TruthyText(author_name) /\ ~TruthyText(year)
            \/ TruthyText(title) /\ ilike(books[b].title, Contains(title))
            \/ /\ TruthyText(author_name)
               /\ books[b].author_id \in DOMAIN authors
               /\ ilike(authors[books[b].author_id].name, Contains(author_name))
            \/ TruthyText(year) /\ books[b].year # NoneInt /\ books[b].year = int(year)}

\* The books the filters of search_books select, each filter added for a
\* parameter that is supplied and not empty.
BooksMatching(args) ==
    LET title == get(args, "q", None)
        author_name == get(args, "author", None)
        year == get(args, "year", None)
    IN  {b \in DOMAIN books :
            /\ TruthyText(title) => ilike(books[b].title, Contains(title))
            /\ TruthyText(author_name) =>
                   \* query.join(Author): the books whose author is stored
                   /\ books[b].author_id \in DOMAIN authors
                   /\ ilike(authors[books[b].author_id].name, Contains(author_name))
            /\ TruthyText(year) =>
                   books[b].year # NoneInt /\ books[b].year = int(year)}

\* The authors the filters of search_authors select.
AuthorsMatching(args) ==
    LET name == get(args, "q", None)
        city == get(args, "city", None)
    IN  {a \in DOMAIN authors :
            /\ TruthyText(name) => ilike(authors[a].name, Contains(name))
            /\ TruthyText(city) => ilike(authors[a].city, Contains(city))}

\* GET /api/books/search
search_books(args) ==
    /\ part = "part4"
    /\ req' = Request("search_books", 0, NoBody, args)
    /\ LET year == get(args, "year", None)
           rows == Ascending(BooksMatching(args))
       IN  IF TruthyText(year) /\ ~IsInt(year)
           THEN Abort4(Unhandled("ValueError"))
           ELSE Abort4([status |-> 200,
                        body |-> [success |-> TRUE,
                                  count |-> Len(rows),
                                  books |-> [i \in 1..Len(rows) |->
                                      BookDict(authors, books, rows[i])]]])
    /\ UNCHANGED <<part, db3, db6>>

\* GET /api/authors/search
search_authors(args) ==
    /\ part = "part4"
    /\ req' = Request("search_authors", 0, NoBody, args)
    /\ LET rows == Ascending(AuthorsMatching(args))
       IN  Abort4([status |-> 200,
                   body |-> [success |-> TRUE,
                             count |-> Len(rows),
                             authors |-> [i \in 1..Len(rows) |->
                                 AuthorDict(authors, books, rows[i])]]])
    /\ UNCHANGED <<part, db3, db6>>

\* init_db() on an empty database file: the sample rows, each stamped by
\* its own datetime.utcnow().
SampleAuthors ==
    <<Author(EricMatthes, PythonEducator, USA, 1),
      Author(MiguelGrinberg, FlaskExpert, Canada, 2),
      Author(RobertCMartin, CleanCodeAuthor, USA, 3)>>
SampleBooks ==
    <<Book(PythonCrashCourse, 1, 2019, Isbn1, 4),
      Book(FlaskWebDevelopment, 2, 2018, Isbn2, 5),
      Book(CleanCode, 3, 2008, Isbn3, 6)>>

(***************************************************************************)
(* part-3: the school application.  Its text values are only stored and    *)
(* compared for equality: they are plain strings here.  A course_id or a   *)
(* teacher_id arrives as form text.                                        *)
(***************************************************************************)
Course(name, description) == [name |-> name, description |-> description]
Teacher(name, email, course_id) == [name |-> name, email |-> email, course_id |-> course_id]
Student(name, email, course_id) == [name |-> name, email |-> email, course_id |-> course_id]

\* A column of INTEGER affinity stores text that reads as an integer as
\* that integer, and compares with such text as with that integer.
IntegerAffinity(v) == IF IsInt(v) THEN int(v) ELSE v

\* email = db.Column(db.String(120), unique=True, nullable=False)
EmailConstraints(T) == \A i, j \in DOMAIN T : i # j => T[i].email # T[j].email

\* A page is rendered, a redirect is sent, abort(404), and the 400 of
\* request.form[key] for a key the form does not carry.
Rendered(template) == [status |-> 200, body |-> [template |-> template]]
Redirect(endpoint) == [status |-> 302, body |-> [location |-> endpoint]]
NotFound == [status |-> 404, body |-> [exception |-> "NotFound"]]
BadRequestKeyError == [status |-> 400, body |-> [exception |-> "BadRequestKeyError"]]

Abort3(response) == resp' = response /\ UNCHANGED db3

\* db.session.commit() of the three tables, then the handler's return.
Commit3(C, T, S, response) ==
    IF EmailConstraints(T) /\ EmailConstraints(S)
    THEN courses' = C /\ teachers' = T /\ students' = S /\ resp' = response
    ELSE Abort3(Unhandled("IntegrityError"))

PersonKeys == {"name", "email", "course_id"}

\* /add-teacher
add_teacher(method, form) ==
    /\ part = "part3"
    /\ req' = Request("add_teacher", 0, [type |-> method, d |-> EmptyDict], form)
    /\ IF method = "GET"
       THEN Abort3(Rendered("add_teacher.html"))
       ELSE IF ~(PersonKeys \subseteq DOMAIN form)
       THEN Abort3(BadRequestKeyError)
       ELSE LET new_teacher == Teacher(form["name"], form["email"],
                                       IntegerAffinity(form["course_id"]))
            IN  Commit3(courses, Insert(teachers, NextId(teachers), new_teacher), students,
                        Redirect("teachers"))
    /\ UNCHANGED <<part, db4, db6>>

\* /edit-teacher/<int:id>
edit_teacher(id, method, form) ==
    /\ part = "part3"
    /\ req' = Request("edit_teacher", id, [type |-> method, d |-> EmptyDict], form)
    /\ IF ~Exists(teachers, id)
       THEN Abort3(NotFound)
       ELSE IF method = "GET"
       THEN Abort3(Rendered("edit_teacher.html"))
       ELSE IF ~(PersonKeys \subseteq DOMAIN form)
       THEN Abort3(BadRequestKeyError)
       ELSE LET teacher == Teacher(form["name"], form["email"],
                                   IntegerAffinity(form["course_id"]))
            IN  Commit3(courses, [teachers EXCEPT ![id] = teacher], students,
                        Redirect("teachers"))
    /\ UNCHANGED <<part, db4, db6>>

\* /delete-teacher/<int:id>
delete_teacher(id) ==
    /\ part = "part3"
    /\ req' = Request("delete_teacher", id, [type |-> "GET", d |-> EmptyDict], EmptyDict)
    /\ IF ~Exists(teachers, id)
       THEN Abort3(NotFound)
       ELSE Commit3(courses, Delete(teachers, {id}), students, Redirect("teachers"))
    /\ UNCHANGED <<part, db4, db6>>

\* /add
add_student(method, form) ==
    /\ part = "part3"
    /\ req' = Request("add_student", 0, [type |-> method, d |-> EmptyDict], form)
    /\ IF method = "GET"
       THEN Abort3(Rendered("add.html"))
       ELSE IF ~(PersonKeys \subseteq DOMAIN form)
       THEN Abort3(BadRequestKeyError)
       ELSE LET new_student == Student(form["name"], form["email"],
                                       IntegerAffinity(form["course_id"]))
            IN  Commit3(courses, teachers, Insert(students, NextId(students), new_student),
                        Redirect("index"))
    /\ UNCHANGED <<part, db4, db6>>

\* /edit/<int:id>
edit_student(id, method, form) ==
    /\ part = "part3"
    /\ req' = Request("edit_student", id, [type |-> method, d |-> EmptyDict], form)
    /\ IF ~Exists(students, id)
       THEN Abort3(NotFound)
       ELSE IF method = "GET"
       THEN Abort3(Rendered("edit.html"))
       ELSE IF ~(PersonKeys \subseteq DOMAIN form)
       THEN Abort3(BadRequestKeyError)
       ELSE LET student == Student(form["name"], form["email"],
                                   IntegerAffinity(form["course_id"]))
            IN  Commit3(courses, teachers, [students EXCEPT ![id] = student],
                        Redirect("index"))
    /\ UNCHANGED <<part, db4, db6>>

\* /delete/<int:id>
delete_student(id) ==
    /\ part = "part3"
    /\ req' = Request("delete_student", id, [type |-> "GET", d |-> EmptyDict], EmptyDict)
    /\ IF ~Exists(students, id)
       THEN Abort3(NotFound)
       ELSE Commit3(courses, teachers, Delete(students, {id}), Redirect("index"))
    /\ UNCHANGED <<part, db4, db6>>

\* An /add-course that stores the course and assigns no teacher.
add_course_unassigned(method, form) ==
    /\ part = "part3"
    /\ req' = Request("add_course", 0, [type |-> method, d |-> EmptyDict], form)
    /\ IF method = "GET"
       THEN Abort3(Rendered("add_course.html"))
       ELSE IF ~({"name", "teacher_id"} \subseteq DOMAIN form)
       THEN Abort3(BadRequestKeyError)
       ELSE Commit3(Insert(courses, NextId(courses),
                           Course(form["name"], get(form, "description", ""))),
                    teachers, students, Redirect("courses"))
    /\ UNCHANGED <<part, db4, db6>>

\* /add-course.  The course is committed, and then the teacher the form
\* names, if it is stored, is moved to the new course and committed.
add_course(method, form) ==
    /\ part = "part3"
    /\ req' = Request("add_course", 0, [type |-> method, d |-> EmptyDict], form)
    /\ IF method = "GET"
       THEN Abort3(Rendered("add_course.html"))
       ELSE IF ~({"name", "teacher_id"} \subseteq DOMAIN form)
       THEN Abort3(BadRequestKeyError)
       ELSE LET id == NextId(courses)
                new_course == Course(form["name"], get(form, "description", ""))
                teacher_id == IntegerAffinity(form["teacher_id"])
                T == IF IsInt(form["teacher_id"]) /\ Exists(teachers, teacher_id)
                     THEN [teachers EXCEPT ![teacher_id].course_id = id]
                     ELSE teachers
            IN  Commit3(Insert(courses, id, new_course), T, students, Redirect("courses"))
    /\ UNCHANGED <<part, db4, db6>>

\* init_db() on an empty database file.
SampleCourses ==
    <<Course("Mathematics", "Algebra & Calculus"),
      Course("Physics", "Mechanics & Electromagnetism"),
      Course("Chemistry", "Organic & Inorganic Chemistry")>>
SampleTeachers ==
    <<Teacher("Dr. Sarah Wilson", "sarah@academy.com", 1),
      Teacher("Mr. John Davis", "john@academy.com", 1),
      Teacher("Prof. Lisa Chen", "lisa@academy.com", 2),
      Teacher("Dr. Raj Patel", "raj@academy.com", 3)>>
SampleStudents ==
    <<Student("Rahul Kumar", "rahul@student.com", 1),
      Student("Priya Singh", "priya@student.com", 2)>>

(***************************************************************************)
(* part-6: the inventory application.  A price is kept in hundredths.      *)
(***************************************************************************)
AppleIPhone14 == "Apple iPhone 14"
SamsungGalaxyS23 == "Samsung Galaxy S23"
DellXPS13Laptop == "Dell XPS 13 Laptop"
SonyHeadphones == "Sony WH-1000XM5 Headphones"
LogitechMouse == "Logitech MX Master 3 Mouse"

Product(name, quantity, price) == [name |-> name, quantity |-> quantity, price |-> price]

\* float(s) of Python for a decimal numeral with at most two decimals,
\* in hundredths; IsFloat(s) = FALSE stands for the ValueError.
DotsOf(cs) == {i \in 1..Len(cs) : cs[i] = "."}
IsFloat(s) ==
    LET cs == chars(s)
    IN  \/ IsDigits(cs)
        \/ /\ Cardinality(DotsOf(cs)) = 1
           /\ LET i == CHOOSE k \in DotsOf(cs) : TRUE
              IN  /\ IsDigits(SubSeq(cs, 1, i - 1))
                  /\ IsDigits(SubSeq(cs, i + 1, Len(cs)))
                  /\ Len(cs) - i <= 2
float(s) ==
    LET cs == chars(s)
    IN  IF DotsOf(cs) = {} THEN 100 * DigitsValue(cs)
        ELSE LET i == CHOOSE k \in DotsOf(cs) : TRUE
                 decimals == SubSeq(cs, i + 1, Len(cs))
             IN  100 * DigitsValue(SubSeq(cs, 1, i - 1))
                 + (IF Len(decimals) = 1 THEN 10 ELSE 1) * DigitsValue(decimals)

\* sum(f(p) for p in products)
RECURSIVE Sum(_, _)
Sum(f, ids) ==
    IF ids = {} THEN 0
    ELSE LET i == CHOOSE k \in ids : TRUE IN f[i] + Sum(f, ids \ {i})

Abort6(response) == resp' = response /\ UNCHANGED db6

\* db.session.commit(): the product table states no constraint a form
\* value can break.
Commit6(P, response) == products' = P /\ resp' = response

\* /
index(args) ==
    /\ part = "part6"
    /\ req' = Request("index", 0, [type |-> "GET", d |-> EmptyDict], args)
    /\ LET query == get(args, "search", "")
           listed == IF TruthyText(query)
                     THEN {i \in DOMAIN products : ilike(products[i].name, Contains(query))}
                     ELSE DOMAIN products
           quantity == [i \in DOMAIN products |-> products[i].quantity]
           value == [i \in DOMAIN products |-> products[i].quantity * products[i].price]
       IN  Abort6([status |-> 200,
                   body |-> [template |-> "index.html",
                             products |-> Ascending(listed),
                             total_quantity |-> Sum(quantity, listed),
                             total_value |-> Sum(value, listed),
                             search |-> query]])
    /\ UNCHANGED <<part, db3, db4>>

\* name = request.form['name']; quantity = int(request.form['quantity']);
\* price = float(request.form['price']), in this order: the response of the
\* first of them that fails, NoResponse when none does.
FormError6(form) ==
    IF "name" \notin DOMAIN form THEN BadRequestKeyError
    ELSE IF "quantity" \notin DOMAIN form THEN BadRequestKeyError
    ELSE IF ~IsInt(form["quantity"]) THEN Unhandled("ValueError")
    ELSE IF "price" \notin DOMAIN form THEN BadRequestKeyError
    ELSE IF ~IsFloat(form["price"]) THEN Unhandled("ValueError")
    ELSE NoResponse

\* /add
add_product(method, form) ==
    /\ part = "part6"
    /\ req' = Request("add_product", 0, [type |-> method, d |-> EmptyDict], form)
    /\ IF method = "GET"
       THEN Abort6(Rendered("add_product.html"))
       ELSE IF FormError6(form) # NoResponse
       THEN Abort6(FormError6(form))
       ELSE LET new_product == Product(form["name"], int(form["quantity"]),
                                       float(form["price"]))
            IN  Commit6(Insert(products, NextId(products), new_product), Redirect("index"))
    /\ UNCHANGED <<part, db3, db4>>

\* /edit/<int:product_id>
edit_product(product_id, method, form) ==
    /\ part = "part6"
    /\ req' = Request("edit_product", product_id, [type |-> method, d |-> EmptyDict], form)
    /\ IF ~Exists(products, product_id)
       THEN Abort6(NotFound)
       ELSE IF method = "GET"
       THEN Abort6(Rendered("edit_product.html"))
       ELSE IF FormError6(form) # NoResponse
       THEN Abort6(FormError6(form))
       ELSE LET product == Product(form["name"], int(form["quantity"]),
                                   float(form["price"]))
            IN  Commit6([products EXCEPT ![product_id] = product], Redirect("index"))
    /\ UNCHANGED <<part, db3, db4>>

\* /delete/<int:product_id>
delete_product(product_id) ==
    /\ part = "part6"
    /\ req' = Request("delete_product", product_id, [type |-> "GET", d |-> EmptyDict],
                      EmptyDict)
    /\ IF ~Exists(products, product_id)
       THEN Abort6(NotFound)
       ELSE Commit6(Delete(products, {product_id}), Redirect("index"))
    /\ UNCHANGED <<part, db3, db4>>

\* The sample rows of the start on an empty database file.
SampleProducts ==
    <<Product(AppleIPhone14, 10, 99999),
      Product(SamsungGalaxyS23, 8, 89999),
      Product(DellXPS13Laptop, 5, 119999),
      Product(SonyHeadphones, 15, 34999),
      Product(LogitechMouse, 20, 9999)>>

(***************************************************************************)
(* A later start of a part: db.create_all() creates no table that exists,  *)
(* and the sample rows are added when the table the start counts is empty. *)
(* An exception that leaves the start ends the process before app.run().   *)
(***************************************************************************)
\* session.add_all(rows) on a table: the rows get the next ids in turn.
AppendRows(table, rows) ==
    LET first == NextId(table)
    IN  [i \in DOMAIN table \cup first..(first + Len(rows) - 1) |->
            IF i \in DOMAIN table THEN table[i] ELSE rows[i - first + 1]]

\* part-3 init_db(): Teacher.query.count() == 0 decides for the three
\* tables; the courses are committed first, the teachers and the students
\* together after them.
init_db3 ==
    /\ part = "part3"
    /\ req' = Request("init_db", 0, NoBody, EmptyDict)
    /\ IF teachers # EmptyTable
       THEN Abort3(NoResponse)
       ELSE LET C == AppendRows(courses, SampleCourses)
                T == AppendRows(teachers, SampleTeachers)
                S == AppendRows(students, SampleStudents)
            IN  IF EmailConstraints(T) /\ EmailConstraints(S)
                THEN courses' = C /\ teachers' = T /\ students' = S /\ resp' = NoResponse
                ELSE /\ courses' = C
                     /\ UNCHANGED <<teachers, students>>
                     /\ resp' = Unhandled("IntegrityError")
    /\ UNCHANGED <<part, db4, db6>>

\* part-4 init_db(): Author.query.count() == 0 decides for both tables;
\* the authors are committed first, the books after them.
init_db4 ==
    /\ part = "part4"
    /\ req' = Request("init_db", 0, NoBody, EmptyDict)
    /\ IF authors # EmptyTable
       THEN Abort4(NoResponse)
       ELSE LET n == Len(SampleAuthors)
                A == AppendRows(authors, [i \in 1..n |->
                         [SampleAuthors[i] EXCEPT !.created_at = clock + i - 1]])
                B == AppendRows(books, [i \in 1..Len(SampleBooks) |->
                         [SampleBooks[i] EXCEPT !.created_at = clock + n + i - 1]])
            IN  IF BookConstraints(B)
                THEN /\ authors' = A /\ books' = B
                     /\ clock' = clock + n + Len(SampleBooks)
                     /\ resp' = NoResponse
                ELSE /\ authors' = A /\ clock' = clock + n
                     /\ UNCHANGED books
                     /\ resp' = Unhandled("IntegrityError")
    /\ UNCHANGED <<part, db3, db6>>

\* part-6 start: Product.query.count() == 0.
init_db6 ==
    /\ part = "part6"
    /\ req' = Request("init_db", 0, NoBody, EmptyDict)
    /\ IF products # EmptyTable
       THEN Abort6(NoResponse)
       ELSE Commit6(AppendRows(products, SampleProducts), NoResponse)
    /\ UNCHANGED <<part, db3, db4>>

(***************************************************************************)
(* Handlers as the threaded server runs them: a step of a thread is what   *)
(* the handler does up to and including a db.session.commit() or its       *)
(* return, and the steps of two threads interleave.  SQLite makes each     *)
(* commit atomic and lets a query read what is committed.                  *)
(***************************************************************************)
\* The handler of thread t returns, or an exception leaves it.
Respond(t, request, commits, response) ==
    inflight' = [inflight EXCEPT ![t] =
        [pc |-> "done", request |-> request, new |-> 0, commits |-> commits,
         response |-> response]]

\* The handler of thread t has committed row `new` and goes on at `pc`.
Proceed(t, pc, request, new, commits) ==
    inflight' = [inflight EXCEPT ![t] =
        [pc |-> pc, request |-> request, new |-> new, commits |-> commits,
         response |-> NoResponse]]

\* create_author up to the insert: the body is read and the name is
\* looked up.
create_author_check(t, data) ==
    /\ part = "part4"
    /\ inflight[t].pc = "idle"
    /\ LET request == Request("create_author", 0, data, EmptyDict)
       IN  IF Falsy(data)
           THEN Respond(t, request, 0, ErrorResponse(400, "Name is required"))
           ELSE IF data.type = "list"
           THEN Respond(t, request, 0, Unhandled("AttributeError"))
           ELSE IF ~TruthyText(get(data.d, "name", None))
           THEN Respond(t, request, 0, ErrorResponse(400, "Name is required"))
           ELSE IF AuthorNamed(data.d["name"]) # {}
           THEN Respond(t, request, 0, ErrorResponse(400, "Author already exists"))
           ELSE Proceed(t, "insert", request, 0, 0)
    /\ UNCHANGED <<part, db3, db4, db6>>

\* create_author from the insert on: the row is added and committed, and
\* the response is built.
create_author_insert(t) ==
    /\ part = "part4"
    /\ inflight[t].pc = "insert"
    /\ LET request == inflight[t].request
           data == request.data
           id == NextId(authors)
           new_author == Author(data.d["name"], get(data.d, "bio", None),
                                get(data.d, "city", None), clock)
           A == Insert(authors, id, new_author)
       IN  IF AuthorConstraints(A)
           THEN /\ authors' = A
                /\ clock' = clock + 1
                /\ Respond(t, request, 1,
                           [status |-> 201,
                            body |-> [success |-> TRUE,
                                      message |-> "Author created successfully",
                                      author |-> AuthorDict(A, books, id)]])
                /\ UNCHANGED books
           ELSE Respond(t, request, 0, Unhandled("IntegrityError")) /\ UNCHANGED db4
    /\ UNCHANGED <<part, db3, db6>>

\* add_course up to its first commit: the form is read and the course is
\* stored.
add_course_insert(t, method, form) ==
    /\ part = "part3"
    /\ inflight[t].pc = "idle"
    /\ LET request == Request("add_course", 0, [type |-> method, d |-> EmptyDict], form)
       IN  IF method = "GET"
           THEN Respond(t, request, 0, Rendered("add_course.html")) /\ UNCHANGED db3
           ELSE IF ~({"name", "teacher_id"} \subseteq DOMAIN form)
           THEN Respond(t, request, 0, BadRequestKeyError) /\ UNCHANGED db3
           ELSE LET id == NextId(courses)
                    new_course == Course(form["name"], get(form, "description", ""))
                IN  /\ courses' = Insert(courses, id, new_course)
                    /\ Proceed(t, "assign", request, id, 1)
                    /\ UNCHANGED <<teachers, students>>
    /\ UNCHANGED <<part, db4, db6>>

\* add_course after its first commit: the teacher the form names is
\* looked up and, if stored, moved to the new course and committed.
add_course_assign(t) ==
    /\ part = "part3"
    /\ inflight[t].pc = "assign"
    /\ LET request == inflight[t].request
           new == inflight[t].new
           teacher_id == IntegerAffinity(request.args["teacher_id"])
       IN  IF IsInt(request.args["teacher_id"]) /\ Exists(teachers, teacher_id)
           THEN /\ teachers' = [teachers EXCEPT ![teacher_id].course_id = new]
                /\ Respond(t, request, inflight[t].commits + 1, Redirect("courses"))
           ELSE /\ Respond(t, request, inflight[t].commits, Redirect("courses"))
                /\ UNCHANGED teachers
    /\ UNCHANGED <<part, courses, students, db4, db6>>

\* /teachers: Teacher.query.join(Course): the teachers whose course is
\* stored, each with its course.  The order of the page is not kept.
teachers_page(t) ==
    /\ part = "part3"
    /\ inflight[t].pc = "idle"
    /\ Respond(t, Request("teachers", 0, NoBody, EmptyDict), 0,
               [status |-> 200,
                body |-> [template |-> "teachers.html",
                          teachers |-> [i \in {i \in DOMAIN teachers :
                                                  teachers[i].course_id \in DOMAIN courses} |->
                                           teachers[i]]]])
    /\ UNCHANGED <<part, db3, db4, db6>>

\* /courses: Course.query.all()
courses_page(t) ==
    /\ part = "part3"
    /\ inflight[t].pc = "idle"
    /\ Respond(t, Request("courses", 0, NoBody, EmptyDict), 0,
               [status |-> 200, body |-> [template |-> "courses.html", courses |-> courses]])
    /\ UNCHANGED <<part, db3, db4, db6>>

\* The response of thread t is sent and its session is removed.
finish(t) ==
    /\ inflight[t].pc = "done"
    /\ inflight' = [inflight EXCEPT ![t] = Idle]
    /\ UNCHANGED <<part, db3, db4, db6>>

(***************************************************************************)
(* The state after the first start of a part: init_db() has filled its     *)
(* empty database file.                                                    *)
(***************************************************************************)
Init ==
    /\ part \in {"part3", "part4", "part6"}
    /\ authors = IF part = "part4" THEN SampleAuthors ELSE EmptyTable
    /\ books = IF part = "part4" THEN SampleBooks ELSE EmptyTable
    /\ clock = Len(SampleAuthors) + Len(SampleBooks) + 1
    /\ courses = IF part = "part3" THEN SampleCourses ELSE EmptyTable
    /\ teachers = IF part = "part3" THEN SampleTeachers ELSE EmptyTable
    /\ students = IF part = "part3" THEN SampleStudents ELSE EmptyTable
    /\ products = IF part = "part6" THEN SampleProducts ELSE EmptyTable
    /\ req = NoRequest
    /\ resp = NoResponse
    /\ ops = 0
    /\ inflight = [t \in Threads |-> Idle]

(***************************************************************************)
(* The requests of the model.                                              *)
(***************************************************************************)
Ann == "Ann"
Dune == "Dune"
Isbn4 == "978-0441172719"

\* The ids a request names: every stored id, and one that is not stored.
Ids(table) == DOMAIN table \cup {NextId(table)}

CreateAuthorBodies ==
    {NoBody, ListBody, Json(EmptyDict),
     Json([city |-> USA]),
     Json([name |-> ""]),
     Json([name |-> EricMatthes]),
     Json([name |-> Ann]),
     Json([name |-> Ann, bio |-> PythonEducator, city |-> USA])}
UpdateAuthorBodies ==
    {NoBody, ListBody,
     Json([name |-> EricMatthes]),
     Json([name |-> Ann]),
     Json([name |-> ""]),
     Json([name |-> None]),
     Json([bio |-> None, city |-> Canada])}
CreateBookBodies ==
    {NoBody, ListBody,
     Json([title |-> Dune]),
     Json([title |-> "", author_id |-> 1]),
     Json([title |-> Dune, author_id |-> 0]),
     Json([title |-> Dune, author_id |-> 99]),
     Json([title |-> Dune, author_id |-> 1]),
     \* the admin page with the year and ISBN boxes left blank
     Json([title |-> Dune, author_id |-> 1, year |-> NoneInt, isbn |-> ""]),
     Json([title |-> Dune, author_id |-> 2, year |-> 2008, isbn |-> Isbn1]),
     Json([title |-> CleanCode, author_id |-> 2, year |-> 1965, isbn |-> Isbn4])}
UpdateBookBodies ==
    {NoBody,
     Json([title |-> Dune]),
     Json([title |-> Dune, author_id |-> 99]),
     Json([title |-> None, author_id |-> 99]),
     Json([title |-> None]),
     Json([author_id |-> 2]),
     Json([isbn |-> Isbn1]),
     Json([year |-> NoneInt, isbn |-> None])}
AuthorListArgs ==
    {EmptyDict,
     [sort |-> "city", order |-> "DESC"],
     [sort |-> "to_dict"]}
BookListArgs ==
    {EmptyDict,
     [sort |-> "author_obj", order |-> "desc"],
     [page |-> "2", per_page |-> "2"]}
BookSearchArgs ==
    {EmptyDict,
     [q |-> "code", author |-> "mart", year |-> "2008"],
     [year |-> "abc"]}
AuthorSearchArgs ==
    {EmptyDict,
     [q |-> "eric", city |-> "usa"]}

\* A GET carries no form; a POST carries one of the forms.
Forms(method, forms) == IF method = "GET" THEN {EmptyDict} ELSE forms
Methods == {"GET", "POST"}
PersonForms ==
    {[name |-> "Asha Rao", email |-> "asha@academy.com", course_id |-> "1"],
     [name |-> "Asha Rao", email |-> "sarah@academy.com", course_id |-> "2"],
     [name |-> "Asha Rao", email |-> "rahul@student.com", course_id |-> "9"],
     [name |-> "Asha Rao", course_id |-> "1"]}
CourseForms ==
    {[name |-> "Biology", description |-> "Cells", teacher_id |-> "1"],
     [name |-> "Biology", teacher_id |-> "9"],
     [name |-> "Biology", teacher_id |-> ""],
     [name |-> "Biology"]}
Pen == "Pen"
ProductForms ==
    {[name |-> Pen, quantity |-> "3", price |-> "1.5"],
     [name |-> AppleIPhone14, quantity |-> "0", price |-> "2"],
     [name |-> Pen, quantity |-> "x", price |-> "1.5"],
     [name |-> Pen, quantity |-> "3", price |-> "free"],
     [name |-> Pen, quantity |-> "3"]}
IndexArgs ==
    {EmptyDict, [search |-> "s2"], [search |-> "%"], [search |-> Pen]}

\* The server takes a request when it is handling none.  A behaviour of
\* Spec makes at most MaxOps requests that change a table; requests that
\* change none are not counted.
tables == <<authors, books, courses, teachers, students, products>>
Counted(request) ==
    /\ req = NoRequest
    /\ request
    /\ ops' = IF tables' # tables THEN ops + 1 ELSE ops
    /\ ops' <= MaxOps
    /\ UNCHANGED inflight

\* The response is sent and the request is over: db = SQLAlchemy(app)
\* removes the request's session, and the server waits for the next one.
teardown ==
    /\ req # NoRequest
    /\ req' = NoRequest
    /\ resp' = NoResponse
    /\ UNCHANGED <<part, db3, db4, db6, ops, inflight>>

Next ==
    \/ \E id \in Ids(authors) : Counted(get_author(id))
    \/ \E data \in CreateAuthorBodies : Counted(create_author(data))
    \/ \E id \in Ids(authors), data \in UpdateAuthorBodies : Counted(update_author(id, data))
    \/ \E id \in Ids(authors) : Counted(delete_author(id))
    \/ \E args \in AuthorListArgs : Counted(get_authors(args))
    \/ \E args \in AuthorSearchArgs : Counted(search_authors(args))
    \/ \E id \in Ids(books) : Counted(get_book(id))
    \/ \E data \in CreateBookBodies : Counted(create_book(data))
    \/ \E id \in Ids(books), data \in UpdateBookBodies : Counted(update_book(id, data))
    \/ \E id \in Ids(books) : Counted(delete_book(id))
    \/ \E args \in BookListArgs : Counted(get_books(args))
    \/ \E args \in BookSearchArgs : Counted(search_books(args))
    \/ \E m \in Methods : \E form \in Forms(m, PersonForms) : Counted(add_teacher(m, form))
    \/ \E id \in Ids(teachers), m \in Methods : \E form \in Forms(m, PersonForms) :
           Counted(edit_teacher(id, m, form))
    \/ \E id \in Ids(teachers) : Counted(delete_teacher(id))
    \/ \E m \in Methods : \E form \in Forms(m, PersonForms) : Counted(add_student(m, form))
    \/ \E id \in Ids(students), m \in Methods : \E form \in Forms(m, PersonForms) :
           Counted(edit_student(id, m, form))
    \/ \E id \in Ids(students) : Counted(delete_student(id))
    \/ \E m \in Methods : \E form \in Forms(m, CourseForms) : Counted(add_course(m, form))
    \/ \E args \in IndexArgs : Counted(index(args))
    \/ \E m \in Methods : \E form \in Forms(m, ProductForms) : Counted(add_product(m, form))
    \/ \E id \in Ids(products), m \in Methods : \E form \in Forms(m, ProductForms) :
           Counted(edit_product(id, m, form))
    \/ \E id \in Ids(products) : Counted(delete_product(id))
    \/ teardown

Spec == Init /\ [][Next]_vars

(***************************************************************************)
(* SortSpec: the list endpoints of part-4 under every sort and order the   *)
(* query string can carry, over tables a few requests away from the sample *)
(* rows (a second author with no bio and no city, books with equal titles, *)
(* a book with no year and no ISBN).                                       *)
(***************************************************************************)
\* The dict of the keys of a record that carry a value.
Dict(r) == [k \in {k \in DOMAIN r : r[k] # None} |-> r[k]]

SortNames(attrs) == attrs \cup {None, "", "nosuch"}
Orders == {None, "", "asc", "desc", "DESC", "Desc", "up"}
SortArgs(attrs) ==
    {Dict([sort |-> s, order |-> o]) : s \in SortNames(attrs), o \in Orders}

Init4 == Init /\ part = "part4"

SortNext ==
    \/ \E args \in SortArgs(AuthorAttrs) : Counted(get_authors(args))
    \/ \E args \in SortArgs(BookAttrs) : Counted(get_books(args))
    \/ Counted(create_author(Json([name |-> Ann])))
    \/ \E id \in DOMAIN authors :
           Counted(update_author(id, Json([bio |-> None, city |-> Canada])))
    \/ \E id \in DOMAIN authors : Counted(delete_author(id))
    \/ Counted(create_book(Json([title |-> Dune, author_id |-> 1])))
    \/ \E id \in DOMAIN books : Counted(update_book(id, Json([title |-> Dune])))
    \/ teardown

SortSpec == Init4 /\ [][SortNext]_vars

(***************************************************************************)
(* SearchSpec: the search endpoints of part-4 under every combination of   *)
(* their parameters, absent, empty and supplied, over tables a few         *)
(* requests away from the sample rows.                                     *)
(***************************************************************************)
BookSearches ==
    {Dict([q |-> q, author |-> a, year |-> y]) :
        q \in {None, "", "code", "FLASK", "_", "%"},
        a \in {None, "", "mart"},
        y \in {None, "", "2008", "abc"}}
AuthorSearches ==
    {Dict([q |-> q, city |-> c]) :
        q \in {None, "", "eric", "R"},
        c \in {None, "", "usa", "can"}}

SearchNext ==
    \/ \E args \in BookSearches : Counted(search_books(args))
    \/ \E args \in AuthorSearches : Counted(search_authors(args))
    \/ Counted(create_author(Json([name |-> Ann])))
    \/ \E id \in DOMAIN authors :
           Counted(update_author(id, Json([bio |-> None, city |-> Canada])))
    \/ \E id \in DOMAIN authors : Counted(delete_author(id))
    \/ \E data \in {Json([title |-> Dune, author_id |-> 1]),
                    Json([title |-> CleanCode, author_id |-> 2, year |-> 1965,
                          isbn |-> Isbn4])} :
           Counted(create_book(data))
    \/ \E id \in DOMAIN books : Counted(update_book(id, Json([year |-> 2008])))
    \/ teardown

SearchSpec == Init4 /\ [][SearchNext]_vars

(***************************************************************************)
(* PageSpec: the list endpoints of part-4 under every page and page size,  *)
(* over a book table of 0 to MaxRows rows.                                 *)
(***************************************************************************)
Numerals == <<"0", "1", "2", "3", "4", "5">>
Pages == {None, "abc"} \cup {Numerals[n + 1] : n \in 0..4}
PageSizes == {None, "-1", "0", "1", "2", "5"}
Sorts == {[sort |-> None, order |-> None], [sort |-> "created_at", order |-> "desc"]}
PageArgs ==
    {Dict([sort |-> s.sort, order |-> s.order, page |-> p, per_page |-> pp]) :
        s \in Sorts, p \in Pages, pp \in PageSizes}

\* The book table keeps its ids within 1..MaxRows.
Paged(request) ==
    /\ req = NoRequest
    /\ request
    /\ \A id \in DOMAIN books' : id <= MaxRows
    /\ UNCHANGED <<ops, inflight>>

PageNext ==
    \/ \E args \in PageArgs : Paged(get_authors(args))
    \/ \E args \in PageArgs : Paged(get_books(args))
    \/ Paged(create_book(Json([title |-> Dune, author_id |-> 1])))
    \/ \E id \in DOMAIN authors : Paged(delete_author(id))
    \/ teardown

PageSpec == Init4 /\ [][PageNext]_vars

(***************************************************************************)
(* The properties.  A request is one step: in it req' is the request, resp' *)
(* its response, the unprimed tables the database before it and the primed *)
(* tables the database after it.  In a state with req # NoRequest, resp is *)
(* the response to req and the tables are the database after it.           *)
(***************************************************************************)
\* The body of a request is a JSON object that carries key.
Carries(request, key) == request.data.type = "dict" /\ key \in DOMAIN request.data.d

\* C1: create_author with a name equal to the name of a stored author is
\* answered with status 400, and the author and book tables are the same
\* after the request as before it.
C1_DuplicateNameRejected ==
    [][(/\ req'.op = "create_author"
        /\ Carries(req', "name")
        /\ \E a \in DOMAIN authors : authors[a].name = req'.data.d["name"])
       => (resp'.status = 400 /\ authors' = authors /\ books' = books)]_vars

\* create_author was sent the name of a stored author and answered
\* 400 "Author already exists".
C1_Witness ==
    /\ req.op = "create_author"
    /\ Carries(req, "name")
    /\ \E a \in DOMAIN authors : authors[a].name = req.data.d["name"]
    /\ resp.status = 400
    /\ resp.body.error = "Author already exists"

\* C2: create_book with an isbn value equal to the isbn of a stored book is
\* answered with a status of the 400 class, for every isbn value the
\* request carries, the empty string included, and no book row is added.
C2_DuplicateIsbnRejected ==
    [][(/\ req'.op = "create_book"
        /\ Carries(req', "isbn")
        /\ req'.data.d["isbn"] # None
        /\ \E b \in DOMAIN books : books[b].isbn = req'.data.d["isbn"])
       => (resp'.status \in 400..499 /\ books' = books)]_vars

\* C3: add_student and add_teacher with an email equal to the email of a
\* stored row of the same table are answered with a status of the 400
\* class, and add no row.
C3_DuplicateEmailRejected ==
    [][(/\ req'.op \in {"add_teacher", "add_student"}
        /\ req'.data.type = "POST"
        /\ "email" \in DOMAIN req'.args
        /\ LET table == IF req'.op = "add_teacher" THEN teachers ELSE students
           IN  \E i \in DOMAIN table : table[i].email = req'.args["email"])
       => (resp'.status \in 400..499 /\ teachers' = teachers /\ students' = students)]_vars

\* The body of a request carries no non-empty text under key / no id
\* under key.
WithoutText(request, key) ==
    ~Carries(request, key) \/ request.data.d[key] \in {None, ""}
WithoutId(request, key) ==
    ~Carries(request, key) \/ request.data.d[key] = NoneInt

\* C4: create_author without a body or without a non-empty name, and
\* create_book without a body, without a non-empty title or without an
\* author_id, are answered with status 400, and the author and book tables
\* are unchanged.
C4_MissingFieldsRejected ==
    [][(\/ req'.op = "create_author" /\ WithoutText(req', "name")
        \/ req'.op = "create_book"
           /\ (WithoutText(req', "title") \/ WithoutId(req', "author_id")))
       => (resp'.status = 400 /\ authors' = authors /\ books' = books)]_vars

\* The table a request by id looks its id up in.
TableOf(op) ==
    IF op \in {"get_author", "update_author", "delete_author"} THEN authors
    ELSE IF op \in {"get_book", "update_book", "delete_book"} THEN books
    ELSE IF op \in {"edit_teacher", "delete_teacher"} THEN teachers
    ELSE IF op \in {"edit_student", "delete_student"} THEN students
    ELSE products
ByIdOps ==
    {"get_author", "update_author", "delete_author", "get_book", "update_book", "delete_book",
     "edit_teacher", "delete_teacher", "edit_student", "delete_student",
     "edit_product", "delete_product"}

\* C5: a get, an update or a delete by an id that has no stored row is
\* answered with status 404 and leaves every table unchanged, for the
\* authors and books of part-4 and the edit and delete routes of part-3
\* and part-6.
C5_MissingIdNotFound ==
    [][(req'.op \in ByIdOps /\ req'.id \notin DOMAIN TableOf(req'.op))
       => (resp'.status = 404 /\ tables' = tables)]_vars

\* An update, with a JSON object that names a stored author, of a book
\* that is not stored was answered 404.
C5_Witness ==
    /\ req.op = "update_book"
    /\ req.id \notin DOMAIN books
    /\ Carries(req, "author_id")
    /\ req.data.d["author_id"] \in DOMAIN authors
    /\ resp.status = 404

\* C6: after a successful delete_author(id) no book with author_id = id is
\* stored, the author table is the one before without id, and every book
\* of another author is stored as before; no other book is stored.
C6_DeleteAuthorCascades ==
    [][(req'.op = "delete_author" /\ resp'.status = 200)
       => (/\ \A b \in DOMAIN books' : books'[b].author_id # req'.id
           /\ DOMAIN authors' = DOMAIN authors \ {req'.id}
           /\ \A a \in DOMAIN authors' : authors'[a] = authors[a]
           /\ DOMAIN books' = {b \in DOMAIN books : books[b].author_id # req'.id}
           /\ \A b \in DOMAIN books' : books'[b] = books[b])]_vars

\* Author 1 was deleted after a fourth book had been added under it: the
\* sample book 1 and book 4 went with it, and books 2 and 3 stayed.
C6_Witness ==
    /\ req.op = "delete_author"
    /\ req.id = 1
    /\ resp.status = 200
    /\ clock = Len(SampleAuthors) + Len(SampleBooks) + 2
    /\ DOMAIN books = {2, 3}
    /\ DOMAIN authors = {2, 3}

\* C7: every response of the part-4 JSON endpoints carries status 200, 201,
\* 400 or 404, for every request in every reachable database state.
C7_StatusCodes ==
    (part = "part4" /\ req # NoRequest) => resp.status \in {200, 201, 400, 404}

\* The list request of a state and what it asks for.
IsList == req.op \in {"get_authors", "get_books"}
ListTable == IF req.op = "get_authors" THEN authors ELSE books
ListColumns == IF req.op = "get_authors" THEN AuthorColumns ELSE BookColumns
ListSort == get(req.args, "sort", "id")
ListOrder == get(req.args, "order", "asc")
\* The ids of the rows of a list response, in the order of the response.
ListIds ==
    LET rows == IF req.op = "get_authors" THEN resp.body.authors ELSE resp.body.books
    IN  [i \in 1..Len(rows) |-> rows[i].id]

\* C8: get_authors and get_books with a sort parameter that is not a
\* declared field of the entity succeed, and the rows come in the default
\* order, ascending by id.
C8_UnknownSortFallsBack ==
    (IsList /\ "sort" \in DOMAIN req.args /\ req.args["sort"] \notin ListColumns)
    => (/\ resp.status = 200
        /\ \A i, j \in 1..Len(ListIds) : i < j => ListIds[i] < ListIds[j])

\* C9: get_authors and get_books with a declared field as sort return the
\* rows in non-increasing order of the field when order is 'desc' in any
\* letter case, and in non-decreasing order for every other order and for
\* none.  NULL is the least value of a column.
C9_SortDirection ==
    (IsList /\ ListSort \in ListColumns)
    => (/\ resp.status = 200
        /\ LET key(i) == Column(ListTable, ListIds[i], ListSort)
           IN  \A i, j \in 1..Len(ListIds) : i < j =>
                   IF lower(chars(ListOrder)) = <<"d", "e", "s", "c">>
                   THEN ~Less(ListSort, key(i), key(j))
                   ELSE ~Less(ListSort, key(j), key(i)))

\* get_books?sort=title&order=DESC returned three books or more, in
\* descending order of their titles, which are not all the same.
C9_Witness ==
    /\ req.op = "get_books"
    /\ req.args = [sort |-> "title", order |-> "DESC"]
    /\ resp.status = 200
    /\ Len(ListIds) >= 3
    /\ TextLess(books[ListIds[Len(ListIds)]].title, books[ListIds[1]].title)

\* The least k with k * s >= n.
Ceil(n, s) == CHOOSE k \in 0..n : k * s >= n /\ (k > 0 => (k - 1) * s < n)

ListPage == ArgInt(req.args, "page", 1)
ListSize == ArgInt(req.args, "per_page", 10)
ListTotal == IF req.op = "get_authors" THEN resp.body.total_authors ELSE resp.body.total_books

\* C10: for a table of N rows and a page size s >= 1 the list endpoints
\* report total = N and total_pages = ceil(N / s); page p with
\* 1 <= p <= total_pages holds the rows at positions (p-1)*s+1 ..
\* min(p*s, N) of the sorted result; 12 rows and s = 5 give 3 pages, of
\* which page 3 holds 2 rows; count is the number of rows on the page.
C10_Pagination ==
    (IsList /\ ListSort \in ListColumns /\ ListSize >= 1)
    => LET N == Cardinality(DOMAIN ListTable)
           s == ListSize
           p == ListPage
           upto == IF p * s < N THEN p * s ELSE N
       IN  /\ resp.status = 200
           /\ ListTotal = N
           /\ resp.body.total_pages = Ceil(N, s)
           /\ resp.body.count = Len(ListIds)
           /\ (1 <= p /\ p <= Ceil(N, s)) =>
                  \E sorted \in Ordered(ListTable, DOMAIN ListTable, ListSort,
                                        lower(chars(ListOrder)) = <<"d", "e", "s", "c">>) :
                      ListIds = SubSeq(sorted, (p - 1) * s + 1, upto)
           /\ (N = 12 /\ s = 5) =>
                  (resp.body.total_pages = 3 /\ (p = 3 => Len(ListIds) = 2))

\* get_books?page=3&per_page=5 over 12 books returned books 11 and 12 as
\* page 3 of 3.
C10_Witness ==
    /\ req.op = "get_books"
    /\ req.args = [page |-> "3", per_page |-> "5"]
    /\ Cardinality(DOMAIN books) = 12
    /\ resp.status = 200
    /\ resp.body.total_books = 12
    /\ resp.body.total_pages = 3
    /\ resp.body.count = 2
    /\ ListIds = <<11, 12>>

\* The ids of the first rows of the listed table in ascending id order, at
\* most 10 of them.
FirstTen == {x \in DOMAIN ListTable : Cardinality({y \in DOMAIN ListTable : y < x}) < 10}

Substring(a, b) == \E i \in 0..(Len(b) - Len(a)) : SubSeq(b, i + 1, i + Len(a)) = a

\* The ids of the rows of a search response, in the order of the response.
SearchIds ==
    LET rows == IF req.op = "search_authors" THEN resp.body.authors ELSE resp.body.books
    IN  {rows[i].id : i \in 1..Len(rows)}

\* C12: search_books with a non-empty q and no other parameter returns
\* exactly the books whose title contains q as a run of adjacent
\* characters, letter case ignored, for every q, one made of '%' or '_'
\* included.
C12_TitleSubstring ==
    (req.op = "search_books" /\ DOMAIN req.args = {"q"} /\ req.args["q"] # "")
    => (/\ resp.status = 200
        /\ SearchIds = {b \in DOMAIN books :
                           Substring(lower(chars(req.args["q"])),
                                     lower(chars(books[b].title)))})

\* The parameters of the request of a state restricted to parameter key.
Only(key) == [k \in DOMAIN req.args \cap {key} |-> req.args[k]]

C14_CommittedBeforeResponse ==
    [][/\ (req'.op \in {"create_author", "update_author"} /\ resp'.status \in {200, 201})
          => LET record == resp'.body.author
             IN  /\ record.id \in DOMAIN authors'
                 /\ req'.op = "update_author" => record.id = req'.id
                 /\ record = AuthorDict(authors', books', record.id)
                 /\ \A k \in DOMAIN req'.data.d \cap {"name", "bio", "city"} :
                        record[k] = req'.data.d[k]
       /\ (req'.op \in {"create_book", "update_book"} /\ resp'.status \in {200, 201})
          => LET record == resp'.body.book
             IN  /\ record.id \in DOMAIN books'
                 /\ req'.op = "update_book" => record.id = req'.id
                 /\ record = BookDict(authors', books', record.id)
                 /\ \A k \in DOMAIN req'.data.d \cap {"title", "author_id", "year", "isbn"} :
                        record[k] = req'.data.d[k]]_vars

\* update_book moved book 1 to author 2, and the response carries the
\* stored book with its new author.
C14_Witness ==
    /\ req.op = "update_book"
    /\ req.id = 1
    /\ req.data = Json([author_id |-> 2])
    /\ resp.status = 200
    /\ books[1].author_id = 2
    /\ resp.body.book = BookDict(authors, books, 1)
    /\ resp.body.book.author_name = MiguelGrinberg

\* C15: in part-3 every teacher row and every student row has a course_id
\* that is the id of a stored course.
C15_CourseReferences ==
    part = "part3"
    => (/\ \A t \in DOMAIN teachers : teachers[t].course_id \in DOMAIN courses
        /\ \A s \in DOMAIN students : students[s].course_id \in DOMAIN courses)

(***************************************************************************)
(* StartSpec: the rows of a part are deleted through its handlers, and the *)
(* process is stopped and started again, at most MaxStarts times.          *)
(***************************************************************************)
\* The process is started while it serves no request.
Restart(start) ==
    /\ req = NoRequest
    /\ start
    /\ ops' = ops + 1
    /\ ops' <= MaxStarts
    /\ UNCHANGED inflight

StartNext ==
    \/ Restart(init_db3)
    \/ Restart(init_db4)
    \/ Restart(init_db6)
    \/ \E id \in DOMAIN teachers : Paged(delete_teacher(id))
    \/ \E id \in DOMAIN students : Paged(delete_student(id))
    \/ \E id \in DOMAIN authors : Paged(delete_author(id))
    \/ \E id \in DOMAIN books : Paged(delete_book(id))
    \/ \E id \in DOMAIN products : Paged(delete_product(id))
    \/ resp.status # 500 /\ teardown

StartSpec == Init /\ [][StartNext]_vars

\* C16: a start of the process adds sample rows to a table only if that
\* table is empty, and completes without error: a table that holds rows
\* is the same after the start, in parts 3, 4 and 6.
C16_SeedOnlyEmptyTables ==
    [][req'.op = "init_db"
       => (/\ resp'.status # 500
           /\ \A i \in 1..6 : tables[i] # EmptyTable => tables'[i] = tables[i])]_vars

(***************************************************************************)
(* RaceSpec: the threads of the server handle at most MaxOps requests of   *)
(* part-3 or part-4, and their steps interleave.                           *)
(***************************************************************************)
RaceAuthorBodies ==
    {NoBody, Json([name |-> Ann]), Json([name |-> Ann, city |-> "Canada"]),
     Json([name |-> MiguelGrinberg])}

\* A thread takes a request.
Started(step) ==
    /\ step
    /\ ops' = ops + 1
    /\ ops' <= MaxOps
    /\ UNCHANGED <<req, resp>>

\* A thread goes on with its request.
Continued(step) == step /\ UNCHANGED <<req, resp, ops>>

RaceNext ==
    \/ \E t \in Threads, data \in RaceAuthorBodies : Started(create_author_check(t, data))
    \/ \E t \in Threads : Continued(create_author_insert(t))
    \/ \E t \in Threads, m \in Methods : \E form \in Forms(m, CourseForms) :
           Started(add_course_insert(t, m, form))
    \/ \E t \in Threads : Continued(add_course_assign(t))
    \/ \E t \in Threads : Started(teachers_page(t))
    \/ \E t \in Threads : Started(courses_page(t))
    \/ \E t \in Threads : Continued(finish(t))

RaceSpec == Init /\ [][RaceNext]_vars

\* The teacher an add_course request of thread t names, if it is stored.
NamedTeacher(t) ==
    LET teacher_id == inflight[t].request.args["teacher_id"]
    IN  IF IsInt(teacher_id) /\ Exists(teachers, IntegerAffinity(teacher_id))
        THEN {IntegerAffinity(teacher_id)}
        ELSE {}

\* C17: a request commits at most once, and no request observes a part of
\* another request's change: a /teachers page given while an add_course
\* request has stored its course shows the teacher that request names in
\* the new course.
C17_SingleCommitPerRequest ==
    [][/\ \A t \in Threads : inflight'[t].commits <= 1
       /\ \A t, u \in Threads :
              (/\ inflight[t].pc = "assign"
               /\ inflight[u].pc = "idle"
               /\ inflight'[u].request.op = "teachers")
              => \A id \in NamedTeacher(t) :
                     inflight'[u].response.body.teachers[id].course_id = inflight[t].new]_vars

\* The author dicts a response of get_author, get_authors or
\* search_authors carries.
AuthorDicts ==
    IF resp.status # 200 THEN {}
    ELSE IF req.op = "get_author" THEN {resp.body.author}
    ELSE IF req.op \in {"get_authors", "search_authors"}
    THEN {resp.body.authors[i] : i \in 1..Len(resp.body.authors)}
    ELSE {}

\* C18: the book_count of every author that get_author, get_authors and
\* search_authors report is the number of stored books whose author_id is
\* that author's id, after every create_book, update_book and delete_book.
C18_BookCountOnRead ==
    \A author \in AuthorDicts :
        author.book_count = Cardinality({b \in DOMAIN books : books[b].author_id = author.id})

\* Book 1 was moved to author 2, and get_author reports two books for
\* author 2.
C18_Witness ==
    /\ req.op = "get_author" /\ req.id = 2
    /\ 1 \in DOMAIN books /\ books[1].author_id = 2
    /\ AuthorDicts # {}
    /\ \A author \in AuthorDicts : author.book_count = 2

\* The products whose name contains the search text of the index request,
\* letter case ignored; every product when the text is empty.
NameContains ==
    LET query == get(req.args, "search", "")
    IN  {i \in DOMAIN products :
            query = "" \/ Substring(lower(chars(query)), lower(chars(products[i].name)))}

\* C19: the index page lists every stored product when search is empty and
\* only the products whose name contains the search text otherwise, and
\* its total_quantity is the sum of the quantity of the products it lists.
C19_TotalQuantity ==
    req.op = "index"
    => (/\ resp.status = 200
        /\ {resp.body.products[i] : i \in 1..Len(resp.body.products)} = NameContains
        /\ resp.body.total_quantity =
               Sum([i \in DOMAIN products |-> products[i].quantity], NameContains))

\* The name a create_author request of thread t carries and has got past
\* the checks of its body with, if any.
CreatedName(t) ==
    LET r == inflight[t]
    IN  IF r.request.op = "create_author" /\ r.pc = "done" /\ r.request.data.type = "dict"
           /\ "name" \in DOMAIN r.request.data.d
        THEN {r.request.data.d["name"]}
        ELSE {}

\* C20: of two create_author requests with the same new name that the
\* server handles at once, one is answered 201, the other is rejected with
\* a status of the 400 class, and one author of that name is stored.
C20_ConcurrentCreate ==
    \A t, u \in Threads :
        (/\ t # u
         /\ inflight[t].response.status = 201
         /\ CreatedName(t) # {}
         /\ CreatedName(u) = CreatedName(t))
        => (/\ inflight[u].response.status \in 400..499
            /\ \A name \in CreatedName(t) : Cardinality(AuthorNamed(name)) = 1)

\* C21: after any sequence of create, update and delete requests for
\* authors and books, accepted or rejected, every stored book has the
\* author_id of a stored author.
C21_BooksHaveAuthors ==
    part = "part4" => \A b \in DOMAIN books : books[b].author_id \in DOMAIN authors

\* A book was created for author 2 and author 2 was deleted: the new
\* book and book 2 went with it.
C21_Witness ==
    /\ req.op = "delete_author" /\ req.id = 2 /\ resp.status = 200
    /\ ops = 2
    /\ clock = Len(SampleAuthors) + Len(SampleBooks) + 2
    /\ DOMAIN books = {1, 3}
    /\ DOMAIN authors = {1, 3}

\* The request is an update that would give the addressed author the name
\* of another author, or the addressed book the ISBN of another book.
IntroducesDuplicate(request) ==
    /\ request.data.type = "dict"
    /\ \/ /\ request.op = "update_author"
          /\ request.id \in DOMAIN authors
          /\ "name" \in DOMAIN request.data.d
          /\ \E j \in DOMAIN authors \ {request.id} : authors[j].name = request.data.d["name"]
       \/ /\ request.op = "update_book"
          /\ request.id \in DOMAIN books
          /\ "isbn" \in DOMAIN request.data.d
          /\ request.data.d["isbn"] # None
          /\ \E j \in DOMAIN books \ {request.id} : books[j].isbn = request.data.d["isbn"]

\* C22: no two stored authors have the same name and no two stored books
\* the same non-null ISBN, after every request; and an update_author or
\* update_book that would introduce a duplicate leaves both tables as they
\* were.
C22_UniqueNamesAndIsbns ==
    [][/\ \A i, j \in DOMAIN authors' : i # j => authors'[i].name # authors'[j].name
       /\ \A i, j \in DOMAIN books' :
              (i # j /\ books'[i].isbn # None) => books'[i].isbn # books'[j].isbn
       /\ (req = NoRequest /\ IntroducesDuplicate(req'))
              => (authors' = authors /\ books' = books)]_vars

\* update_author of author 2 with the name of author 1 has failed, and
\* author 2 keeps its name.
C22_Witness ==
    /\ req.op = "update_author" /\ req.id = 2
    /\ req.data = Json([name |-> EricMatthes])
    /\ resp.status = 500
    /\ authors[2].name = MiguelGrinberg
    /\ authors[1].name = EricMatthes

\* C23: update_book of a stored book with a body whose author_id names no
\* stored author is answered 400 and changes no table, whatever else the
\* body carries, a title included: a get_book that follows reads the book
\* as it was.
C23_UnknownAuthorRejected ==
    [][(/\ req = NoRequest
        /\ req'.op = "update_book"
        /\ req'.id \in DOMAIN books
        /\ req'.data.type = "dict"
        /\ "author_id" \in DOMAIN req'.data.d
        /\ req'.data.d["author_id"] \notin DOMAIN authors)
       => (/\ resp'.status = 400
           /\ books' = books
           /\ authors' = authors)]_vars

\* Table `after` differs from table `before` at most in row id, and there
\* at most in the columns of `keys` among `columns`.
OnlyChanged(before, after, id, columns, keys) ==
    /\ DOMAIN after = DOMAIN before
    /\ \A j \in DOMAIN before \ {id} : after[j] = before[j]
    /\ \A k \in (columns \ keys) \cup {"created_at"} : after[id][k] = before[id][k]

\* C24: an update_author or update_book answered 200 changes, in the
\* addressed row, only columns whose keys the body carries; the row keeps
\* its id and created_at, and every other author and book row is as it
\* was.
C24_UpdateFrame ==
    [][(req = NoRequest /\ resp'.status = 200)
       => (/\ req'.op = "update_author"
              => (/\ OnlyChanged(authors, authors', req'.id, {"name", "bio", "city"},
                                 DOMAIN req'.data.d)
                  /\ books' = books)
           /\ req'.op = "update_book"
              => (/\ OnlyChanged(books, books', req'.id,
                                 {"title", "author_id", "year", "isbn"}, DOMAIN req'.data.d)
                  /\ authors' = authors))]_vars

\* update_author of author 1 with a bio and a city: the name stays, and
\* author 2 is as in the sample rows.
C24_Witness ==
    /\ req.op = "update_author" /\ req.id = 1 /\ resp.status = 200
    /\ req.data = Json([bio |-> None, city |-> Canada])
    /\ authors[1].name = EricMatthes
    /\ authors[1].bio = None
    /\ authors[1].city = Canada
    /\ authors[2] = SampleAuthors[2]

====
